---- MODULE Spec2Model ----
(***************************************************************************)
(* The OAuth2 token lifecycle manager of outlook-mcp                       *)
(* (src/auth/token-storage.js, class TokenStorage) as a state machine.     *)
(*                                                                         *)
(* JavaScript runs one job at a time.  A step of this model is one         *)
(* synchronous segment of the code: from a call or a resumption up to the  *)
(* next await.  I/O completions (file read/write/unlink, HTTP response)    *)
(* are macrotasks: the event loop runs them only when no promise           *)
(* continuation (microtask) is pending.  New calls may come at any time.   *)
(***************************************************************************)
EXTENDS Integers, Sequences, FiniteSets, TLC

(***************************************************************************)
(* Bounds of the model.                                                    *)
(***************************************************************************)
NumCallers == 2      \* concurrent logical callers
MaxTicks == 1        \* clock advances
MaxIssued == 2       \* successful token-endpoint responses

Procs == 1..NumCallers

(***************************************************************************)
(* Program constants.                                                      *)
(***************************************************************************)
\* config.refreshTokenBuffer: 5 * 60 * 1000
refreshTokenBuffer == 300000

\* The clock starts two buffers after the epoch and advances one buffer a tick.
InitNow == 2 * refreshTokenBuffer
TickMs == refreshTokenBuffer

\* expires_in (seconds) a provider may report: one buffer, two buffers.
ExpiresInChoices == {refreshTokenBuffer \div 1000, (2 * refreshTokenBuffer) \div 1000}

(***************************************************************************)
(* Values.  A token record has the six fields of the persisted file; a     *)
(* string field that is undefined is "", a number field that is undefined  *)
(* (or NaN) is 0: both are falsy in JavaScript, as the code tests them.    *)
(***************************************************************************)
Null == [isNull |-> TRUE]

AT(n) == "AT" \o ToString(n)
RT(n) == "RT" \o ToString(n)

Fields == {"access_token", "refresh_token", "expires_in", "expires_at", "scope", "token_type"}
NumFields == {"expires_in", "expires_at"}

Rec(at, rt, ein, eat) ==
  [access_token |-> at, refresh_token |-> rt, expires_in |-> ein,
   expires_at |-> eat, scope |-> "Mail.Read", token_type |-> "Bearer"]

\* !v for a string field and for a number field.
NoStr(v) == v = ""
NoNum(v) == v = 0

\* JSON.stringify(this.tokens, null, 2): keys whose value is undefined are
\* left out of the text.  The text is modelled as the map of the keys written.
JSONStringify(rec) ==
  LET keys == {k \in Fields : IF k \in NumFields THEN rec[k] # 0 ELSE rec[k] # ""}
  IN  [k \in keys |-> rec[k]]

\* JSON.parse(tokenData) followed by the code's field reads: a key that is
\* not in the text reads as undefined.
JSONParse(text) ==
  [k \in Fields |-> IF k \in DOMAIN text THEN text[k]
                    ELSE IF k \in NumFields THEN 0 ELSE ""]

\* Backing file: missing, unparsable, or a JSON text.
NoFile == [kind |-> "ENOENT"]
Corrupt == [kind |-> "corrupt"]
FileOf(rec) == [kind |-> "json", text |-> JSONStringify(rec)]

(***************************************************************************)
(* State.                                                                  *)
(***************************************************************************)
VARIABLES
  tokens,           \* this.tokens
  loadPromise,      \* this._loadPromise: 0 (null) or the id of the load
  refreshPromise,   \* this._refreshPromise: 0 (null) or the id of the refresh
  configured,       \* config.clientId && config.clientSecret
  file,             \* content of config.tokenStorePath
  now,              \* Date.now()
  io,               \* I/O operations in flight
  settling,         \* loads that have a value and whose .finally is still to run
  call,             \* caller -> the call it is in
  issued            \* successful token-endpoint responses so far

vars == <<tokens, loadPromise, refreshPromise, configured, file, now, io,
          settling, call, issued>>

Idle == [op |-> "idle", pc |-> "idle"]

\* Token store files the process may find at start, relative to the clock:
\* none, an unparsable one, a valid record, an expired record with and
\* without refresh_token.
InitFiles ==
  { NoFile, Corrupt,
    FileOf(Rec(AT(0), RT(0), 2 * (TickMs \div 1000), InitNow + 2 * refreshTokenBuffer)),
    FileOf(Rec(AT(0), RT(0), 2 * (TickMs \div 1000), InitNow)),
    FileOf(Rec(AT(0), "", 2 * (TickMs \div 1000), InitNow)) }

\* constructor
Init ==
  /\ tokens = Null
  /\ loadPromise = 0
  /\ refreshPromise = 0
  /\ configured \in BOOLEAN
  /\ file \in InitFiles
  /\ now = InitNow
  /\ io = {}
  /\ settling = {}
  /\ call = [p \in Procs |-> Idle]
  /\ issued = 0

(***************************************************************************)
(* Results of calls.                                                       *)
(***************************************************************************)
RetToken(at) == [kind |-> "token", at |-> at]
RetRecord(rec) == [kind |-> "record", rec |-> rec]
RetNull == [kind |-> "null"]
RetError(msg) == [kind |-> "error", msg |-> msg]
RetOf(v) == IF v = Null THEN RetNull ELSE RetRecord(v)

Done(op, ret) == [op |-> op, pc |-> "done", ret |-> ret]

\* A promise continuation (microtask) is ready to run: a caller whose awaited
\* promise has settled, or the .finally callback of a load.
Resumable(p) == call[p].pc \in {"check", "load_ready", "refresh_ready", "done"}

MicrotaskPending == (\E p \in Procs : Resumable(p)) \/ settling # {}

\* The smallest promise id not in use.
FreshId(used) == CHOOSE i \in 1..(Cardinality(used) + 1) : i \notin used /\ \A j \in 1..(i - 1) : j \in used

(***************************************************************************)
(* getTokens / _loadTokensFromFile                                         *)
(***************************************************************************)
\* Mutant: getTokens without the `if (!this._loadPromise)` test.
MustStartLoad_always == TRUE

\* getTokens line 63: a read is started only when no load is in flight.
MustStartLoad == loadPromise = 0

ReadsInFlight == {o \in io : o.kind = "read"}

LoadIdsInUse ==
  {o.id : o \in ReadsInFlight} \cup {s.id : s \in settling}
    \cup {call[q].id : q \in {r \in Procs : call[r].pc = "wait_load"}}

\* The load in whose flight an invocation of getTokens falls: the read in
\* flight, or else the one this invocation is about to start.
LoadWindowAtCall ==
  IF ReadsInFlight # {}
  THEN CHOOSE i \in {o.id : o \in ReadsInFlight} : \A o \in ReadsInFlight : i <= o.id
  ELSE FreshId(LoadIdsInUse)

\* Lines 63-68 for a caller p without cached tokens: start the read unless a
\* load is in flight, and await this._loadPromise.
AttachLoad(p, op) ==
  IF MustStartLoad
  THEN /\ io' = io \cup {[kind |-> "read", id |-> FreshId(LoadIdsInUse)]}
       /\ loadPromise' = FreshId(LoadIdsInUse)
       /\ call' = [call EXCEPT ![p] =
             [op |-> op, pc |-> "wait_load", id |-> FreshId(LoadIdsInUse), win |-> LoadWindowAtCall]]
  ELSE /\ call' = [call EXCEPT ![p] =
             [op |-> op, pc |-> "wait_load", id |-> loadPromise, win |-> LoadWindowAtCall]]
       /\ UNCHANGED <<io, loadPromise>>

\* getTokens(), called directly.
CallGetTokens(p) ==
  /\ call[p].pc = "idle"
  /\ IF tokens # Null
     THEN /\ call' = [call EXCEPT ![p] = Done("getTokens", RetRecord(tokens))]
          /\ UNCHANGED <<io, loadPromise>>
     ELSE AttachLoad(p, "getTokens")
  /\ UNCHANGED <<tokens, refreshPromise, configured, file, now, settling, issued>>

\* What _loadTokensFromFile assigns to this.tokens and returns when the read
\* completes: the parsed record, or null on ENOENT, a read error or a parse error.
LoadedTokens(f, readOk) ==
  IF readOk /\ f.kind = "json" THEN JSONParse(f.text) ELSE Null

\* fs.readFile completes; _loadTokensFromFile runs to its end.
ReadComplete(o, readOk) ==
  /\ o \in io /\ o.kind = "read"
  /\ ~MicrotaskPending
  /\ tokens' = LoadedTokens(file, readOk)
  /\ settling' = settling \cup {[id |-> o.id, value |-> LoadedTokens(file, readOk)]}
  /\ io' = io \ {o}
  /\ UNCHANGED <<loadPromise, refreshPromise, configured, file, now, call, issued>>

\* The .finally callback of getTokens: this._loadPromise = null; the callers
\* awaiting the load then have its value.
LoadFinally(s) ==
  /\ s \in settling
  /\ loadPromise' = 0
  /\ settling' = settling \ {s}
  /\ call' = [p \in Procs |->
        IF call[p].pc = "wait_load" /\ call[p].id = s.id
        THEN [op |-> call[p].op, pc |-> "load_ready", win |-> call[p].win, value |-> s.value]
        ELSE call[p]]
  /\ UNCHANGED <<tokens, refreshPromise, configured, file, now, io, issued>>

\* A direct getTokens caller receives the value of the load it awaited.
GetTokensReturn(p) ==
  /\ call[p].op = "getTokens" /\ call[p].pc = "load_ready"
  /\ call' = [call EXCEPT ![p] =
        [op |-> "getTokens", pc |-> "done", ret |-> RetOf(call[p].value), win |-> call[p].win]]
  /\ UNCHANGED <<tokens, loadPromise, refreshPromise, configured, file, now, io,
                 settling, issued>>

(***************************************************************************)
(* The token endpoint.                                                     *)
(***************************************************************************)
\* A 2xx body of the token endpoint; a refresh response may omit refresh_token.
OkResponses(withoutRT) ==
  { [status |-> "ok", access_token |-> AT(issued + 1), refresh_token |-> rt, expires_in |-> e] :
      rt \in (IF withoutRT THEN {"", RT(issued + 1)} ELSE {RT(issued + 1)}),
      e \in ExpiresInChoices }

\* A non-2xx body with error_description, and a body JSON.parse rejects.
ErrorResponse == [status |-> "error", error_description |-> "invalid_grant"]
GarbageResponse == [status |-> "garbage"]

Responses(withoutRT) ==
  (IF issued < MaxIssued THEN OkResponses(withoutRT) ELSE {}) \cup {ErrorResponse, GarbageResponse}

(***************************************************************************)
(* Error messages.                                                         *)
(***************************************************************************)
NoRefreshTokenMsg == "No refresh token available to refresh the access token."
RefreshSaveFailedMsg == "Access token refreshed but failed to save"
ExchangeSaveFailedMsg == "Tokens exchanged but failed to save"
ExchangeParseMsg == "Error processing token response"
NotConfiguredMsg == "Client ID or Client Secret is not configured. Cannot exchange code for tokens."
TransportMsg == "ECONNRESET"
TypeErrorMsg == "TypeError: Cannot read properties of null"
SyntaxErrorMsg == "SyntaxError: Unexpected token"

(***************************************************************************)
(* isTokenExpired / _saveTokensToFile                                      *)
(***************************************************************************)
\* Mutant: every record counts as expired.
isTokenExpired_always(t, n) == TRUE

\* Mutant: the expiry test without the refresh buffer.
isTokenExpired_noBuffer(t, n) ==
  IF t = Null \/ NoNum(t.expires_at) THEN TRUE
  ELSE n >= t.expires_at

\* Mutant: the expiry test with > for >=.
isTokenExpired_strict(t, n) ==
  IF t = Null \/ NoNum(t.expires_at) THEN TRUE
  ELSE n > t.expires_at - refreshTokenBuffer

\* isTokenExpired(): no record, no expires_at, or now within the buffer of expiry.
isTokenExpired(t, n) ==
  IF t = Null \/ NoNum(t.expires_at) THEN TRUE
  ELSE n >= t.expires_at - refreshTokenBuffer

\* getExpiryTime()
getExpiryTime(t) == IF t # Null /\ ~NoNum(t.expires_at) THEN t.expires_at ELSE 0

\* _saveTokensToFile line 45: with no record nothing is written (returns false).
SaveWrites(t) == t # Null

(***************************************************************************)
(* refreshAccessToken                                                      *)
(***************************************************************************)
\* Mutant: the guard tests the record only, not its refresh_token.
NoRefreshToken_recordOnly(t) == t = Null

\* line 113: the guard that throws 'No refresh token available'.
NoRefreshToken(t) == t = Null \/ NoStr(t.refresh_token)

\* Mutant: refreshAccessToken without the `if (this._refreshPromise)` test.
RefreshInProgress_never == FALSE

\* line 118: a refresh is already in progress.
RefreshInProgress == refreshPromise # 0

RefreshKinds == {"refresh_net", "refresh_write"}
RefreshesInFlight == {o \in io : o.kind \in RefreshKinds}

RefreshIdsInUse ==
  {o.id : o \in RefreshesInFlight}
    \cup {call[q].id : q \in {r \in Procs : call[r].pc = "wait_refresh"}}

\* The refresh in whose flight an invocation falls: the one in flight, or
\* else the one this invocation is about to start.
WindowAtCall ==
  IF RefreshesInFlight # {}
  THEN CHOOSE i \in {o.id : o \in RefreshesInFlight} : \A o \in RefreshesInFlight : i <= o.id
  ELSE FreshId(RefreshIdsInUse)

\* Lines 118-188 for caller p in operation op: attach to the refresh in
\* flight, or issue the request and set the marker.
RefreshAttachOrStart(p, op) ==
  IF RefreshInProgress
  THEN /\ call' = [call EXCEPT ![p] =
             [op |-> op, pc |-> "wait_refresh", id |-> refreshPromise, win |-> WindowAtCall]]
       /\ UNCHANGED <<io, refreshPromise>>
  ELSE /\ io' = io \cup {[kind |-> "refresh_net", id |-> FreshId(RefreshIdsInUse),
                         refresh_token |-> tokens.refresh_token]}
       /\ refreshPromise' = FreshId(RefreshIdsInUse)
       /\ call' = [call EXCEPT ![p] =
             [op |-> op, pc |-> "wait_refresh", id |-> FreshId(RefreshIdsInUse),
              win |-> WindowAtCall]]

\* refreshAccessToken(), called directly.
CallRefresh(p) ==
  /\ call[p].pc = "idle"
  /\ IF NoRefreshToken(tokens)
     THEN /\ call' = [call EXCEPT ![p] = Done("refresh", RetError(NoRefreshTokenMsg))]
          /\ UNCHANGED <<io, refreshPromise>>
     ELSE RefreshAttachOrStart(p, "refresh")
  /\ UNCHANGED <<tokens, loadPromise, configured, file, now, settling, issued>>

\* Mutant: the response handler assigns access_token only before it suspends.
RefreshedRecord_accessTokenOnly(t, resp, n) ==
  [t EXCEPT !.access_token = resp.access_token,
            !.refresh_token = IF ~NoStr(resp.refresh_token) THEN resp.refresh_token ELSE @]

\* Mutant: refresh_token is assigned from the response unconditionally.
RefreshedRecord_overwriteRT(t, resp, n) ==
  [t EXCEPT !.access_token = resp.access_token,
            !.refresh_token = resp.refresh_token,
            !.expires_in = resp.expires_in,
            !.expires_at = n + resp.expires_in * 1000]

\* Lines 148-154: the record after a 2xx refresh response, updated in place.
RefreshedRecord(t, resp, n) ==
  [t EXCEPT !.access_token = resp.access_token,
            !.refresh_token = IF ~NoStr(resp.refresh_token) THEN resp.refresh_token ELSE @,
            !.expires_in = resp.expires_in,
            !.expires_at = n + resp.expires_in * 1000]

Rejected(msg) == [state |-> "rejected", msg |-> msg]
Resolved(v) == [state |-> "resolved", value |-> v]

\* Mutant: the handlers forget `this._refreshPromise = null`.
ClearsMarker_forgotten == FALSE

\* Whether settling the refresh promise clears the marker (line 175, line 182).
ClearsMarker == TRUE

\* resolve/reject of the refresh promise, then this._refreshPromise = null:
\* the callers awaiting that promise then have its outcome.
\* fresh: the access token this refresh has put in this.tokens ("" if none).
SettleRefresh(o, outcome, fresh) ==
  /\ refreshPromise' = IF ClearsMarker THEN 0 ELSE refreshPromise
  /\ call' = [p \in Procs |->
        IF call[p].pc = "wait_refresh" /\ call[p].id = o.id
        THEN [op |-> call[p].op, pc |-> "refresh_ready", win |-> call[p].win,
              out |-> outcome, fresh |-> fresh]
        ELSE call[p]]

\* Lines 146-173 without the save: how the response settles the promise when
\* no save is started.
RefreshFailure(resp) ==
  Rejected(CASE resp.status = "ok" -> TypeErrorMsg
             [] resp.status = "error" -> resp.error_description
             [] OTHER -> SyntaxErrorMsg)

\* res.on('end') of the refresh request.
RefreshResponse(o, resp) ==
  /\ o \in io /\ o.kind = "refresh_net"
  /\ ~MicrotaskPending
  /\ IF resp.status = "ok" /\ tokens # Null
     THEN /\ tokens' = RefreshedRecord(tokens, resp, now)
          /\ io' = (io \ {o}) \cup
                     {[kind |-> "refresh_write", id |-> o.id,
                       text |-> JSONStringify(RefreshedRecord(tokens, resp, now)),
                       resp |-> resp, old |-> tokens]}
          /\ UNCHANGED <<refreshPromise, call>>
     ELSE /\ SettleRefresh(o, RefreshFailure(resp), "")
          /\ io' = io \ {o}
          /\ UNCHANGED tokens
  /\ issued' = IF resp.status = "ok" THEN issued + 1 ELSE issued
  /\ UNCHANGED <<loadPromise, configured, file, now, settling>>

\* Mutant: a transport error of the refresh request drops the record.
RefreshTransportError_dropsRecord(o) ==
  /\ o \in io /\ o.kind = "refresh_net"
  /\ ~MicrotaskPending
  /\ SettleRefresh(o, Rejected(TransportMsg), "")
  /\ io' = io \ {o}
  /\ tokens' = Null
  /\ UNCHANGED <<loadPromise, configured, file, now, settling, issued>>

\* Mutant: req.on('error') neither rejects nor clears the marker.
RefreshTransportError_neverSettles(o) ==
  /\ o \in io /\ o.kind = "refresh_net"
  /\ ~MicrotaskPending
  /\ io' = io \ {o}
  /\ UNCHANGED <<tokens, loadPromise, refreshPromise, configured, file, now, settling,
                 issued, call>>

\* req.on('error') of the refresh request.
RefreshTransportError(o) ==
  /\ o \in io /\ o.kind = "refresh_net"
  /\ ~MicrotaskPending
  /\ SettleRefresh(o, Rejected(TransportMsg), "")
  /\ io' = io \ {o}
  /\ UNCHANGED <<tokens, loadPromise, configured, file, now, settling, issued>>

\* Mutant: a failed save is only logged and the promise resolved (the
\* alternative the comment at lines 161-163 describes).
RefreshSaveOutcome_resolve(writeOk, t) == Resolved(t)

\* Lines 155-166: how the refresh promise settles when the save has ended.
RefreshSaveOutcome(writeOk, t) ==
  IF writeOk THEN Resolved(t) ELSE Rejected(RefreshSaveFailedMsg)

\* fs.writeFile of the refreshed record completes.
RefreshWriteComplete(o, writeOk) ==
  /\ o \in io /\ o.kind = "refresh_write"
  /\ ~MicrotaskPending
  /\ file' = IF writeOk THEN [kind |-> "json", text |-> o.text] ELSE file
  /\ SettleRefresh(o, RefreshSaveOutcome(writeOk, tokens), o.resp.access_token)
  /\ io' = io \ {o}
  /\ UNCHANGED <<tokens, loadPromise, configured, now, settling, issued>>

\* .then(tokens => tokens.access_token) on the settled refresh promise.
ThenAccessToken(outcome) ==
  IF outcome.state = "rejected" THEN RetError(outcome.msg)
  ELSE IF outcome.value = Null THEN RetError(TypeErrorMsg)
  ELSE RetToken(outcome.value.access_token)

DoneRefresh(op, ret, c) ==
  [op |-> op, pc |-> "done", ret |-> ret, win |-> c.win, out |-> c.out, fresh |-> c.fresh]

\* A direct refreshAccessToken caller receives the outcome.
RefreshReturn(p) ==
  /\ call[p].op = "refresh" /\ call[p].pc = "refresh_ready"
  /\ call' = [call EXCEPT ![p] = DoneRefresh("refresh", ThenAccessToken(call[p].out), call[p])]
  /\ UNCHANGED <<tokens, loadPromise, refreshPromise, configured, file, now, io,
                 settling, issued>>

(***************************************************************************)
(* getValidAccessToken                                                     *)
(***************************************************************************)
\* getValidAccessToken() up to `await this.getTokens()`.
CallGetValidAccessToken(p) ==
  /\ call[p].pc = "idle"
  /\ IF tokens # Null
     THEN /\ call' = [call EXCEPT ![p] = [op |-> "gvat", pc |-> "check"]]
          /\ UNCHANGED <<io, loadPromise>>
     ELSE AttachLoad(p, "gvat")
  /\ UNCHANGED <<tokens, refreshPromise, configured, file, now, settling, issued>>

\* Lines 98-99 and 104-105: this.tokens = null, then _saveTokensToFile(),
\* which writes only when there is a record to write.
Invalidate ==
  /\ tokens' = Null
  /\ IF SaveWrites(Null)
     THEN file' = [kind |-> "json", text |-> <<>>]
     ELSE UNCHANGED file

\* Lines 86-109, after the load.
GetValidAccessTokenCheck(p) ==
  /\ call[p].op = "gvat" /\ call[p].pc \in {"check", "load_ready"}
  /\ IF tokens = Null \/ NoStr(tokens.access_token)
     THEN /\ call' = [call EXCEPT ![p] = Done("gvat", RetNull)]
          /\ UNCHANGED <<tokens, file, io, refreshPromise>>
     ELSE IF ~isTokenExpired(tokens, now)
     THEN /\ call' = [call EXCEPT ![p] =
                [op |-> "gvat", pc |-> "done", ret |-> RetToken(tokens.access_token),
                 cached |-> tokens]]
          /\ UNCHANGED <<tokens, file, io, refreshPromise>>
     ELSE IF ~NoStr(tokens.refresh_token)
     THEN /\ RefreshAttachOrStart(p, "gvat")
          /\ UNCHANGED <<tokens, file>>
     ELSE /\ Invalidate
          /\ call' = [call EXCEPT ![p] =
                [op |-> "gvat", pc |-> "done", ret |-> RetNull, invalidated |-> tokens]]
          /\ UNCHANGED <<io, refreshPromise>>
  /\ UNCHANGED <<loadPromise, configured, now, settling, issued>>

\* Mutant: getValidAccessToken without the try/catch around the refresh.
GetValidAccessTokenRefreshed_rethrow(p) ==
  /\ call[p].op = "gvat" /\ call[p].pc = "refresh_ready"
  /\ call' = [call EXCEPT ![p] = DoneRefresh("gvat", ThenAccessToken(call[p].out), call[p])]
  /\ UNCHANGED <<tokens, file, loadPromise, refreshPromise, configured, now, io, settling,
                 issued>>

\* Lines 95-101: the awaited refresh has settled.
GetValidAccessTokenRefreshed(p) ==
  /\ call[p].op = "gvat" /\ call[p].pc = "refresh_ready"
  /\ IF ThenAccessToken(call[p].out).kind = "token"
     THEN /\ call' = [call EXCEPT ![p] =
                DoneRefresh("gvat", ThenAccessToken(call[p].out), call[p])]
          /\ UNCHANGED <<tokens, file>>
     ELSE /\ Invalidate
          /\ call' = [call EXCEPT ![p] = DoneRefresh("gvat", RetNull, call[p])]
  /\ UNCHANGED <<loadPromise, refreshPromise, configured, now, io, settling, issued>>

(***************************************************************************)
(* exchangeCodeForTokens                                                   *)
(***************************************************************************)
\* Lines 222-229: the fresh record built from a 2xx exchange response.
ExchangedRecord(resp, n) ==
  [access_token |-> resp.access_token, refresh_token |-> resp.refresh_token,
   expires_in |-> resp.expires_in, expires_at |-> n + resp.expires_in * 1000,
   scope |-> "Mail.Read", token_type |-> "Bearer"]

\* Mutant: exchangeCodeForTokens without the configuration check.
ExchangeAllowed_always == TRUE

\* Line 193: client id and secret are configured.
ExchangeAllowed == configured

\* exchangeCodeForTokens(authCode) up to the request.
CallExchange(p) ==
  /\ call[p].pc = "idle"
  /\ IF ~ExchangeAllowed
     THEN /\ call' = [call EXCEPT ![p] = Done("exchange", RetError(NotConfiguredMsg))]
          /\ UNCHANGED io
     ELSE /\ call' = [call EXCEPT ![p] = [op |-> "exchange", pc |-> "ex_net"]]
          /\ io' = io \cup {[kind |-> "exchange_net", p |-> p]}
  /\ UNCHANGED <<tokens, loadPromise, refreshPromise, configured, file, now,
                 settling, issued>>

\* res.on('end') of the exchange request.
ExchangeResponse(o, resp) ==
  /\ o \in io /\ o.kind = "exchange_net"
  /\ ~MicrotaskPending
  /\ IF resp.status = "ok"
     THEN /\ tokens' = ExchangedRecord(resp, now)
          /\ io' = (io \ {o}) \cup
                     {[kind |-> "exchange_write", p |-> o.p,
                       text |-> JSONStringify(ExchangedRecord(resp, now))]}
          /\ call' = [call EXCEPT ![o.p] =
                [op |-> "exchange", pc |-> "ex_save", own |-> ExchangedRecord(resp, now)]]
          /\ issued' = issued + 1
     ELSE /\ call' = [call EXCEPT ![o.p] = Done("exchange", RetError(
                IF resp.status = "error" THEN resp.error_description ELSE ExchangeParseMsg))]
          /\ io' = io \ {o}
          /\ UNCHANGED <<tokens, issued>>
  /\ UNCHANGED <<loadPromise, refreshPromise, configured, file, now, settling>>

\* req.on('error') of the exchange request.
ExchangeTransportError(o) ==
  /\ o \in io /\ o.kind = "exchange_net"
  /\ ~MicrotaskPending
  /\ call' = [call EXCEPT ![o.p] = Done("exchange", RetError(TransportMsg))]
  /\ io' = io \ {o}
  /\ UNCHANGED <<tokens, loadPromise, refreshPromise, configured, file, now,
                 settling, issued>>

\* Lines 230-239: how the exchange promise settles when the save has ended.
ExchangeSaveOutcome(writeOk, t) ==
  IF writeOk THEN RetOf(t) ELSE RetError(ExchangeSaveFailedMsg)

\* fs.writeFile of the exchanged record completes.
ExchangeWriteComplete(o, writeOk) ==
  /\ o \in io /\ o.kind = "exchange_write"
  /\ ~MicrotaskPending
  /\ file' = IF writeOk THEN [kind |-> "json", text |-> o.text] ELSE file
  /\ call' = [call EXCEPT ![o.p] =
        [op |-> "exchange", pc |-> "done", ret |-> ExchangeSaveOutcome(writeOk, tokens),
         own |-> call[o.p].own]]
  /\ io' = io \ {o}
  /\ UNCHANGED <<tokens, loadPromise, refreshPromise, configured, now, settling, issued>>

(***************************************************************************)
(* clearTokens                                                             *)
(***************************************************************************)
\* clearTokens() up to `await fs.unlink(...)`.
CallClearTokens(p) ==
  /\ call[p].pc = "idle"
  /\ tokens' = Null
  /\ io' = io \cup {[kind |-> "unlink", p |-> p]}
  /\ call' = [call EXCEPT ![p] = [op |-> "clear", pc |-> "unlinking"]]
  /\ UNCHANGED <<loadPromise, refreshPromise, configured, file, now, settling, issued>>

\* Mutant: clearTokens without the try/catch around fs.unlink.
UnlinkComplete_throws(o, unlinkOk) ==
  /\ o \in io /\ o.kind = "unlink"
  /\ ~MicrotaskPending
  /\ file' = IF unlinkOk THEN NoFile ELSE file
  /\ call' = [call EXCEPT ![o.p] = Done("clear",
        IF unlinkOk \/ file = NoFile THEN [kind |-> "undefined"] ELSE RetError(TransportMsg))]
  /\ io' = io \ {o}
  /\ UNCHANGED <<tokens, loadPromise, refreshPromise, configured, now, settling, issued>>

\* fs.unlink completes: the file is removed, was not there (ENOENT), or the
\* deletion failed; none of these throws.
UnlinkComplete(o, unlinkOk) ==
  /\ o \in io /\ o.kind = "unlink"
  /\ ~MicrotaskPending
  /\ file' = IF unlinkOk THEN NoFile ELSE file
  /\ call' = [call EXCEPT ![o.p] = Done("clear", [kind |-> "undefined"])]
  /\ io' = io \ {o}
  /\ UNCHANGED <<tokens, loadPromise, refreshPromise, configured, now, settling, issued>>

(***************************************************************************)
(* Environment and the next-state relation.                                *)
(***************************************************************************)
\* The caller's own continuation takes the result of its call.
Return(p) ==
  /\ call[p].pc = "done"
  /\ call' = [call EXCEPT ![p] = Idle]
  /\ UNCHANGED <<tokens, loadPromise, refreshPromise, configured, file, now, io,
                 settling, issued>>

\* Time passes.
Tick ==
  /\ now < InitNow + MaxTicks * TickMs
  /\ now' = now + TickMs
  /\ UNCHANGED <<tokens, loadPromise, refreshPromise, configured, file, io,
                 settling, call, issued>>

\* isTokenExpired(), called on its own.
CallIsTokenExpired(p) ==
  /\ call[p].pc = "idle"
  /\ call' = [call EXCEPT ![p] =
        Done("isTokenExpired", [kind |-> "bool", b |-> isTokenExpired(tokens, now)])]
  /\ UNCHANGED <<tokens, loadPromise, refreshPromise, configured, file, now, io,
                 settling, issued>>

Next ==
  \/ \E p \in Procs : CallGetTokens(p)
  \/ \E o \in io, readOk \in BOOLEAN : ReadComplete(o, readOk)
  \/ \E s \in settling : LoadFinally(s)
  \/ \E p \in Procs : GetTokensReturn(p)
  \/ \E p \in Procs : CallRefresh(p)
  \/ \E o \in io, resp \in Responses(TRUE) : RefreshResponse(o, resp)
  \/ \E o \in io : RefreshTransportError(o)
  \/ \E o \in io, writeOk \in BOOLEAN : RefreshWriteComplete(o, writeOk)
  \/ \E p \in Procs : RefreshReturn(p)
  \/ \E p \in Procs : CallGetValidAccessToken(p)
  \/ \E p \in Procs : GetValidAccessTokenCheck(p)
  \/ \E p \in Procs : GetValidAccessTokenRefreshed(p)
  \/ \E p \in Procs : CallExchange(p)
  \/ \E o \in io, resp \in Responses(FALSE) : ExchangeResponse(o, resp)
  \/ \E o \in io : ExchangeTransportError(o)
  \/ \E o \in io, writeOk \in BOOLEAN : ExchangeWriteComplete(o, writeOk)
  \/ \E p \in Procs : CallClearTokens(p)
  \/ \E o \in io, unlinkOk \in BOOLEAN : UnlinkComplete(o, unlinkOk)
  \/ \E p \in Procs : Return(p)
  \/ Tick

Spec == Init /\ [][Next]_vars

(***************************************************************************)
(* isTokenExpired as a function of the record and the clock: the record    *)
(* and the clock are drawn around the expiry boundary.                     *)
(***************************************************************************)
ExpiryNows == {InitNow + k * TickMs + j : k \in 0..MaxTicks, j \in 0..1}

ExpiryInputs ==
  {Null} \cup
  { Rec(AT(0), RT(0), 2 * (TickMs \div 1000), e) :
      e \in {0} \cup {n + refreshTokenBuffer + d : n \in ExpiryNows, d \in {-1, 0, 1}} }

InitExpiry ==
  /\ tokens \in ExpiryInputs
  /\ now \in ExpiryNows
  /\ loadPromise = 0
  /\ refreshPromise = 0
  /\ configured = TRUE
  /\ file = NoFile
  /\ io = {}
  /\ settling = {}
  /\ call = [p \in Procs |-> Idle]
  /\ issued = 0

NextExpiry ==
  \/ \E p \in Procs : CallIsTokenExpired(p)
  \/ \E p \in Procs : Return(p)

SpecExpiry == InitExpiry /\ [][NextExpiry]_vars

(***************************************************************************)
(* The routes of src/auth/oauth-server.js that use the token storage.      *)
(***************************************************************************)
Http(status, body) == [kind |-> "http", status |-> status, body |-> body]

\* GET /token-status up to `await tokenStorage.getValidAccessToken()`.
TokenStatus(p) == CallGetValidAccessToken(p)

\* GET /token-status after the await: the page with the expiry, or the page
\* asking to authenticate; 500 if the check threw.
TokenStatusRespond(p) ==
  /\ call[p].op = "gvat" /\ call[p].pc = "done"
  /\ call' = [call EXCEPT ![p] = Done("token-status",
        CASE call[p].ret.kind = "token" -> Http(200, [valid |-> TRUE, expiry |-> getExpiryTime(tokens)])
          [] call[p].ret.kind = "error" -> Http(500, [error |-> call[p].ret.msg])
          [] OTHER -> Http(200, [valid |-> FALSE]))]
  /\ UNCHANGED <<tokens, loadPromise, refreshPromise, configured, file, now, io,
                 settling, issued>>

\* The response has been sent.
StatusReturn(p) == call[p].op = "token-status" /\ Return(p)

NextStatus ==
  \/ \E p \in Procs : TokenStatus(p)
  \/ \E o \in io, readOk \in BOOLEAN : ReadComplete(o, readOk)
  \/ \E s \in settling : LoadFinally(s)
  \/ \E p \in Procs : GetValidAccessTokenCheck(p)
  \/ \E o \in io, resp \in Responses(TRUE) : RefreshResponse(o, resp)
  \/ \E o \in io : RefreshTransportError(o)
  \/ \E o \in io, writeOk \in BOOLEAN : RefreshWriteComplete(o, writeOk)
  \/ \E p \in Procs : GetValidAccessTokenRefreshed(p)
  \/ \E p \in Procs : TokenStatusRespond(p)
  \/ \E p \in Procs : StatusReturn(p)
  \/ Tick

\* The server answering status queries only.
SpecStatus == Init /\ [][NextStatus]_vars

\* req.query of GET /auth/callback: which of code, error, state are present.
Queries == [code : BOOLEAN, error : BOOLEAN, state : BOOLEAN]

\* Mutant: the callback without the `if (!state)` rejection.
CallbackRejects_noStateCheck(q) ==
  CASE q.error -> "error"
    [] ~q.code -> "Missing Authorization Code"
    [] OTHER -> ""

\* Lines 128-146: the reason the callback ends with 400, "" if none.
CallbackRejects(q) ==
  CASE ~q.state -> "Missing State Parameter"
    [] q.error -> "error"
    [] ~q.code -> "Missing Authorization Code"
    [] OTHER -> ""

\* GET /auth/callback up to `await tokenStorage.exchangeCodeForTokens(code)`.
AuthCallback(p, q) ==
  IF CallbackRejects(q) # ""
  THEN /\ call[p].pc = "idle"
       /\ call' = [call EXCEPT ![p] = Done("callback", Http(400, CallbackRejects(q)))]
       /\ UNCHANGED <<tokens, loadPromise, refreshPromise, configured, file, now, io,
                      settling, issued>>
  ELSE CallExchange(p)

\* GET /auth/callback after the await: the success page, or 500 with the error.
CallbackRespond(p) ==
  /\ call[p].op = "exchange" /\ call[p].pc = "done"
  /\ call' = [call EXCEPT ![p] = Done("callback",
        IF call[p].ret.kind = "error" THEN Http(500, call[p].ret.msg)
        ELSE Http(200, "Authentication Successful"))]
  /\ UNCHANGED <<tokens, loadPromise, refreshPromise, configured, file, now, io,
                 settling, issued>>

CallbackReturn(p) == call[p].op = "callback" /\ Return(p)

NextCallback ==
  \/ \E p \in Procs, q \in Queries : AuthCallback(p, q)
  \/ \E o \in io, resp \in Responses(FALSE) : ExchangeResponse(o, resp)
  \/ \E o \in io : ExchangeTransportError(o)
  \/ \E o \in io, writeOk \in BOOLEAN : ExchangeWriteComplete(o, writeOk)
  \/ \E p \in Procs : CallbackRespond(p)
  \/ \E p \in Procs : CallbackReturn(p)
  \/ Tick

\* The server answering callbacks only.
SpecCallback == Init /\ [][NextCallback]_vars

\* Values of the `state` query parameter; "" stands for absent or empty.
StateValues == {"", "st1", "st2"}

\* req.query of GET /auth/callback with the value of state (line 103).
ValueQueries == [code : BOOLEAN, error : BOOLEAN, state : StateValues]

\* Mutant: a callback that compares state with the value it expects.
StatePresent_compared(v) == v = "st1"

\* Line 128, `if (!state)`: the only place the handler reads state.
StatePresent(v) == v # ""

\* What the handler's tests see of the query.
QueryOf(qv) == [code |-> qv.code, error |-> qv.error, state |-> StatePresent(qv.state)]

\* GET /auth/callback for a query that carries a state value.
AuthCallbackWithState(p, qv) == AuthCallback(p, QueryOf(qv))

NextCallbackState ==
  \/ \E p \in Procs, qv \in ValueQueries : AuthCallbackWithState(p, qv)
  \/ \E o \in io, resp \in Responses(FALSE) : ExchangeResponse(o, resp)
  \/ \E o \in io : ExchangeTransportError(o)
  \/ \E o \in io, writeOk \in BOOLEAN : ExchangeWriteComplete(o, writeOk)
  \/ \E p \in Procs : CallbackRespond(p)
  \/ \E p \in Procs : CallbackReturn(p)
  \/ Tick

\* The server answering callbacks whose state parameter has a value.
SpecCallbackState == Init /\ [][NextCallbackState]_vars

\* The token storage under exchange, refresh and getValidAccessToken calls
\* when every fs.writeFile succeeds.
NextSaved ==
  \/ \E p \in Procs : CallGetValidAccessToken(p)
  \/ \E p \in Procs : CallRefresh(p)
  \/ \E p \in Procs : CallExchange(p)
  \/ \E o \in io, readOk \in BOOLEAN : ReadComplete(o, readOk)
  \/ \E st \in settling : LoadFinally(st)
  \/ \E p \in Procs : GetValidAccessTokenCheck(p)
  \/ \E o \in io, resp \in Responses(TRUE) : RefreshResponse(o, resp)
  \/ \E o \in io : RefreshTransportError(o)
  \/ \E o \in io : RefreshWriteComplete(o, TRUE)
  \/ \E p \in Procs : RefreshReturn(p)
  \/ \E p \in Procs : GetValidAccessTokenRefreshed(p)
  \/ \E o \in io, resp \in Responses(FALSE) : ExchangeResponse(o, resp)
  \/ \E o \in io : ExchangeTransportError(o)
  \/ \E o \in io : ExchangeWriteComplete(o, TRUE)
  \/ \E p \in Procs : Return(p)
  \/ Tick

SpecSaved == Init /\ [][NextSaved]_vars

(***************************************************************************)
(* The application around the storage: what its callers have been told.    *)
(* A caller whose clearTokens() has completed, or whose                    *)
(* getValidAccessToken() has returned absent after discarding the record,  *)
(* keeps a note of it until an exchangeCodeForTokens() has resolved.  The  *)
(* notes are kept with the pending items in io; no operation of the        *)
(* storage reads them.                                                     *)
(***************************************************************************)
LoggedOut(p) == [kind |-> "note", what |-> "logged_out", by |-> p]
Invalidated(p) == [kind |-> "note", what |-> "invalidated", by |-> p]
Notes == {o \in io : o.kind = "note"}

\* getValidAccessToken has returned absent from lines 96-100 or 102-107.
ReturnedInvalidated(c) ==
  /\ c.op = "gvat" /\ c.pc = "done" /\ c.ret = RetNull
  /\ ("invalidated" \in DOMAIN c \/ "out" \in DOMAIN c)

\* exchangeCodeForTokens has resolved.
ReturnedExchanged(c) == c.op = "exchange" /\ c.pc = "done" /\ c.ret.kind # "error"

\* The caller's continuation after `await clearTokens()`.
AfterClearTokens(p) ==
  /\ call[p].op = "clear" /\ call[p].pc = "done"
  /\ call' = [call EXCEPT ![p] = Idle]
  /\ io' = io \cup {LoggedOut(p)}
  /\ UNCHANGED <<tokens, loadPromise, refreshPromise, configured, file, now,
                 settling, issued>>

\* The caller's continuation after getValidAccessToken() gave absent for a
\* discarded record.
AfterInvalidation(p) ==
  /\ ReturnedInvalidated(call[p])
  /\ call' = [call EXCEPT ![p] = Idle]
  /\ io' = io \cup {Invalidated(p)}
  /\ UNCHANGED <<tokens, loadPromise, refreshPromise, configured, file, now,
                 settling, issued>>

\* The caller's continuation after exchangeCodeForTokens() resolved.
AfterExchange(p) ==
  /\ ReturnedExchanged(call[p])
  /\ call' = [call EXCEPT ![p] = Idle]
  /\ io' = io \ Notes
  /\ UNCHANGED <<tokens, loadPromise, refreshPromise, configured, file, now,
                 settling, issued>>

\* Any other return to the caller.
OtherReturn(p) ==
  /\ call[p].op # "clear"
  /\ ~ReturnedInvalidated(call[p])
  /\ ~ReturnedExchanged(call[p])
  /\ Return(p)

NextSession ==
  \/ \E p \in Procs : CallGetValidAccessToken(p)
  \/ \E p \in Procs : CallExchange(p)
  \/ \E p \in Procs : CallClearTokens(p)
  \/ \E o \in io, readOk \in BOOLEAN : ReadComplete(o, readOk)
  \/ \E st \in settling : LoadFinally(st)
  \/ \E p \in Procs : GetValidAccessTokenCheck(p)
  \/ \E o \in io, resp \in Responses(TRUE) : RefreshResponse(o, resp)
  \/ \E o \in io : RefreshTransportError(o)
  \/ \E o \in io, writeOk \in BOOLEAN : RefreshWriteComplete(o, writeOk)
  \/ \E p \in Procs : GetValidAccessTokenRefreshed(p)
  \/ \E o \in io, resp \in Responses(FALSE) : ExchangeResponse(o, resp)
  \/ \E o \in io : ExchangeTransportError(o)
  \/ \E o \in io, writeOk \in BOOLEAN : ExchangeWriteComplete(o, writeOk)
  \/ \E o \in io, unlinkOk \in BOOLEAN : UnlinkComplete(o, unlinkOk)
  \/ \E p \in Procs : AfterClearTokens(p)
  \/ \E p \in Procs : AfterInvalidation(p)
  \/ \E p \in Procs : AfterExchange(p)
  \/ \E p \in Procs : OtherReturn(p)
  \/ Tick

\* The storage with its callers keeping track of logout and invalidation.
SpecSession == Init /\ [][NextSession]_vars

(***************************************************************************)
(* The storage on an event loop that makes progress: calls arrive as       *)
(* events of their own (when no continuation is pending), every pending    *)
(* continuation runs, every token-endpoint request is answered or fails,   *)
(* and every file operation completes.                                     *)
(***************************************************************************)
\* A call arriving as an event of the loop.
Arrives(p) == ~MicrotaskPending /\ call[p].pc = "idle"

\* The refresh request ends: a response, or a transport error.
RefreshRequestEnds ==
  \E o \in io : \/ \E resp \in Responses(TRUE) : RefreshResponse(o, resp)
                \/ RefreshTransportError(o)

\* fs.writeFile of the refreshed record ends.
RefreshWriteEnds == \E o \in io, writeOk \in BOOLEAN : RefreshWriteComplete(o, writeOk)

NextLive ==
  \/ \E p \in Procs : Arrives(p) /\ CallGetValidAccessToken(p)
  \/ \E p \in Procs : Arrives(p) /\ CallRefresh(p)
  \/ \E p \in Procs : Arrives(p) /\ CallExchange(p)
  \/ \E p \in Procs : Arrives(p) /\ CallClearTokens(p)
  \/ \E o \in io, readOk \in BOOLEAN : ReadComplete(o, readOk)
  \/ \E st \in settling : LoadFinally(st)
  \/ \E p \in Procs : GetValidAccessTokenCheck(p)
  \/ RefreshRequestEnds
  \/ RefreshWriteEnds
  \/ \E p \in Procs : RefreshReturn(p)
  \/ \E p \in Procs : GetValidAccessTokenRefreshed(p)
  \/ \E o \in io, resp \in Responses(FALSE) : ExchangeResponse(o, resp)
  \/ \E o \in io : ExchangeTransportError(o)
  \/ \E o \in io, writeOk \in BOOLEAN : ExchangeWriteComplete(o, writeOk)
  \/ \E o \in io, unlinkOk \in BOOLEAN : UnlinkComplete(o, unlinkOk)
  \/ \E p \in Procs : Return(p)

\* Pending continuations run (weak fairness: once ready they stay ready);
\* requests and writes of a refresh end (strong fairness: their handlers
\* run between the continuations of other events).
FairLive ==
  /\ \A p \in Procs : WF_vars(RefreshReturn(p))
  /\ \A p \in Procs : WF_vars(GetValidAccessTokenRefreshed(p))
  /\ \A p \in Procs : WF_vars(GetValidAccessTokenCheck(p))
  /\ \A p \in Procs : WF_vars(Return(p))
  /\ WF_vars(\E st \in settling : LoadFinally(st))
  /\ SF_vars(RefreshRequestEnds)
  /\ SF_vars(RefreshWriteEnds)

SpecLive == Init /\ [][NextLive]_vars /\ FairLive

(***************************************************************************)
(* Properties.                                                             *)
(***************************************************************************)
\* A caller that has the outcome of a refreshAccessToken invocation.
HasRefreshOutcome(c) == c.pc = "refresh_ready" \/ (c.pc = "done" /\ "out" \in DOMAIN c)

\* C1: callers whose refreshAccessToken invocation (direct or through
\* getValidAccessToken) falls in the flight of the same refresh cause one
\* token-endpoint request only - never are two refresh requests in flight -
\* and all of them receive the same outcome, the same access token or the
\* same rejection.
C1_RefreshDeduplicated ==
  /\ Cardinality(RefreshesInFlight) <= 1
  /\ \A p, q \in Procs :
       (HasRefreshOutcome(call[p]) /\ HasRefreshOutcome(call[q]) /\ call[p].win = call[q].win)
         => ThenAccessToken(call[p].out) = ThenAccessToken(call[q].out)

\* Two callers, one direct and one through getValidAccessToken, have received
\* the same access token from one refresh.
C1_Witness ==
  \E p, q \in Procs :
    /\ call[p].op = "refresh" /\ call[q].op = "gvat"
    /\ HasRefreshOutcome(call[p]) /\ HasRefreshOutcome(call[q])
    /\ call[p].win = call[q].win
    /\ ThenAccessToken(call[p].out).kind = "token"

\* C2: the marker _refreshPromise is set exactly while a started refresh has
\* not settled (so it is cleared only after the settlement, on every path,
\* and is null once the refresh has settled); a step that clears it is the
\* step in which that refresh settles, so it is cleared once per refresh; and
\* while it is set no new refresh request is started.
C2_MarkerInv ==
  /\ refreshPromise # 0 <=> RefreshesInFlight # {}
  /\ refreshPromise # 0 => \A o \in RefreshesInFlight : o.id = refreshPromise

C2_MarkerStep ==
  /\ (refreshPromise # 0 /\ refreshPromise' = 0)
       => /\ \E o \in RefreshesInFlight : o.id = refreshPromise /\ o \notin io'
          /\ RefreshesInFlight' = {}
  /\ refreshPromise # 0
       => {o \in io' : o.kind = "refresh_net"} \subseteq {o \in io : o.kind = "refresh_net"}

C2_MarkerClearedOnceAfterSettle == [](C2_MarkerInv) /\ [][C2_MarkerStep]_vars

\* A refresh has settled on the failure path after its save was attempted,
\* its caller has the rejection, and the marker is null.
C2_Witness ==
  /\ refreshPromise = 0
  /\ \E p \in Procs :
       /\ call[p].pc = "refresh_ready"
       /\ call[p].out = Rejected(RefreshSaveFailedMsg)

\* A caller that has the value of a load it awaited.
HasLoadValue(c) == c.pc = "load_ready" \/ (c.pc = "done" /\ c.op = "getTokens" /\ "win" \in DOMAIN c)
LoadValueOf(c) == IF c.pc = "load_ready" THEN RetOf(c.value) ELSE c.ret

\* C3: callers that invoke getTokens with no record in memory during the
\* flight of the same file read cause no second read - never are two reads in
\* flight - and receive the same result; with a record in memory getTokens
\* returns that record and starts no read.
C3_LoadInv ==
  /\ Cardinality(ReadsInFlight) <= 1
  /\ \A p, q \in Procs :
       (HasLoadValue(call[p]) /\ HasLoadValue(call[q]) /\ call[p].win = call[q].win)
         => LoadValueOf(call[p]) = LoadValueOf(call[q])

C3_CachedStep ==
  \A p \in Procs :
    (tokens # Null /\ call[p].pc = "idle" /\ call'[p].op = "getTokens")
      => /\ call'[p].pc = "done" /\ call'[p].ret = RetRecord(tokens)
         /\ ReadsInFlight' = ReadsInFlight

C3_SingleFlightLoad == [](C3_LoadInv) /\ [][C3_CachedStep]_vars

\* Two getTokens callers have received the same record from one read.
C3_Witness ==
  \E p, q \in Procs :
    /\ p # q
    /\ call[p].op = "getTokens" /\ call[q].op = "getTokens"
    /\ call[p].pc = "load_ready" /\ call[q].pc = "load_ready"
    /\ call[p].win = call[q].win
    /\ call[p].value # Null

\* C4: when a refresh triggered by getValidAccessToken is answered with a
\* provider error, getValidAccessToken returns absent and the backing store
\* holds no record any more.
C4_RefreshFailureInvalidatesStore ==
  \A p \in Procs :
    (/\ call[p].op = "gvat" /\ call[p].pc = "done" /\ "out" \in DOMAIN call[p]
     /\ call[p].out = Rejected(ErrorResponse.error_description))
      => (call[p].ret = RetNull /\ file.kind # "json")

\* C5: when getValidAccessToken finds an expired record without
\* refresh_token it returns absent, the in-memory record is absent and the
\* backing store holds no record any more.
C5_NoRefreshTokenInvalidatesStore ==
  \A p \in Procs :
    (call[p].pc = "done" /\ "invalidated" \in DOMAIN call[p])
      => /\ call[p].ret = RetNull
         /\ tokens = Null
         /\ file.kind # "json"

\* C6: a 2xx response to a refresh or an exchange puts the new access token
\* in the in-memory record; when the save that follows fails, that step leaves
\* the in-memory record as it is and the call is rejected with the
\* 'refreshed/exchanged but failed to save' error, which differs from the
\* provider's error and from the transport error.
C6_SaveFailureStep ==
  /\ \A o \in io, resp \in OkResponses(TRUE) :
       (tokens # Null /\ RefreshResponse(o, resp))
         => (tokens' # Null /\ tokens'.access_token = resp.access_token)
  /\ \A o \in io, resp \in OkResponses(FALSE) :
       ExchangeResponse(o, resp)
         => (tokens' # Null /\ tokens'.access_token = resp.access_token)
  /\ \A o \in io :
       RefreshWriteComplete(o, FALSE)
         => /\ tokens' = tokens
            /\ \A p \in Procs :
                 (call[p].pc = "wait_refresh" /\ call[p].id = o.id)
                   => /\ call'[p].pc = "refresh_ready"
                      /\ ThenAccessToken(call'[p].out) = RetError(RefreshSaveFailedMsg)
  /\ \A o \in io :
       ExchangeWriteComplete(o, FALSE)
         => /\ tokens' = tokens
            /\ call'[o.p].pc = "done"
            /\ call'[o.p].ret = RetError(ExchangeSaveFailedMsg)
  /\ \A p \in Procs :
       (/\ call[p].op = "refresh" /\ call[p].pc = "refresh_ready"
        /\ call[p].out = Rejected(RefreshSaveFailedMsg) /\ call'[p].pc = "done")
         => (call'[p].ret = RetError(RefreshSaveFailedMsg) /\ tokens' = tokens)
  /\ {RefreshSaveFailedMsg, ExchangeSaveFailedMsg}
       \cap {ErrorResponse.error_description, TransportMsg, SyntaxErrorMsg, ExchangeParseMsg} = {}

C6_SaveFailureKeepsToken == [][C6_SaveFailureStep]_vars

\* A direct refreshAccessToken call has been rejected with the save error
\* and the in-memory record holds the access token of that refresh.
C6_Witness ==
  \E p \in Procs :
    /\ call[p].op = "refresh" /\ call[p].pc = "done"
    /\ call[p].ret = RetError(RefreshSaveFailedMsg)
    /\ tokens # Null /\ tokens.access_token = call[p].fresh

\* C7: when the refresh triggered by getValidAccessToken succeeded at the
\* token endpoint and the save failed, the in-memory record holds the
\* refreshed access token when getValidAccessToken has returned.
C7_SaveFailureKeepsTokenInGetValid ==
  \A p \in Procs :
    (/\ call[p].op = "gvat" /\ call[p].pc = "done" /\ "out" \in DOMAIN call[p]
     /\ call[p].out = Rejected(RefreshSaveFailedMsg))
      => (tokens # Null /\ tokens.access_token = call[p].fresh)

\* The record an access token returned by getValidAccessToken belongs to.
RecordOfReturned(c) == IF "cached" \in DOMAIN c THEN c.cached ELSE c.out.value

ReturnsToken(p) ==
  /\ call[p].pc # "done" /\ call'[p].pc = "done"
  /\ call'[p].op = "gvat" /\ call'[p].ret.kind = "token"

\* C8 as claimed: every access token getValidAccessToken returns, cached or
\* just refreshed, belongs to a record that is not expired under the buffered
\* rule at the moment of the return.
C8_EveryReturnedTokenUnexpired ==
  [][\A p \in Procs :
       ReturnsToken(p)
         => now' < RecordOfReturned(call'[p]).expires_at - refreshTokenBuffer]_vars

\* C8 as amended: every access token getValidAccessToken returns from the
\* cache, without a refresh, is the access token of the in-memory record, and
\* that record is not expired under the buffered rule at the moment of the
\* return.
C8_CachedTokenUnexpired ==
  [][\A p \in Procs :
       (ReturnsToken(p) /\ "cached" \in DOMAIN call'[p])
         => /\ call'[p].cached = tokens'
            /\ call'[p].ret.at = tokens'.access_token
            /\ now' < tokens'.expires_at - refreshTokenBuffer]_vars

\* getValidAccessToken has returned the cached access token.
C8_Witness ==
  \E p \in Procs :
    /\ call[p].op = "gvat" /\ call[p].pc = "done" /\ "cached" \in DOMAIN call[p]
    /\ call[p].ret.kind = "token"

\* C9: isTokenExpired is true exactly when there is no record, the record has
\* no expires_at, or now >= expires_at - refreshBuffer, the buffer being
\* 300000 ms; expires_at = now + buffer - 1 is expired, now + buffer + 1 is not.
C9_ExpiredExactly ==
  /\ refreshTokenBuffer = 5 * 60 * 1000
  /\ \A p \in Procs :
       (call[p].op = "isTokenExpired" /\ call[p].pc = "done")
         => /\ call[p].ret.b =
                 (tokens = Null \/ tokens.expires_at = 0
                    \/ now >= tokens.expires_at - refreshTokenBuffer)
            /\ (tokens # Null /\ tokens.expires_at = now + refreshTokenBuffer - 1)
                 => call[p].ret.b = TRUE
            /\ (tokens # Null /\ tokens.expires_at = now + refreshTokenBuffer + 1)
                 => call[p].ret.b = FALSE

\* isTokenExpired has answered for a record one millisecond inside the buffer.
C9_Witness ==
  \E p \in Procs :
    /\ call[p].op = "isTokenExpired" /\ call[p].pc = "done"
    /\ tokens # Null /\ tokens.expires_at = now + refreshTokenBuffer - 1
    /\ call[p].ret.b = TRUE

\* C10: a 2xx refresh response without refresh_token leaves the stored
\* refresh_token as it was, one with a refresh_token replaces it; the record
\* saved to the file carries the same refresh_token.
C10_RefreshTokenStep ==
  /\ \A o \in io, resp \in OkResponses(TRUE) :
       (tokens # Null /\ RefreshResponse(o, resp))
         => tokens'.refresh_token =
              (IF resp.refresh_token = "" THEN tokens.refresh_token ELSE resp.refresh_token)
  /\ \A o \in io :
       RefreshWriteComplete(o, TRUE)
         => JSONParse(file'.text).refresh_token =
              (IF o.resp.refresh_token = "" THEN o.old.refresh_token ELSE o.resp.refresh_token)

C10_RefreshTokenPreserved == [][C10_RefreshTokenStep]_vars

\* A refresh whose response had no refresh_token has been saved, and the
\* record and the file hold the refresh_token stored before.
C10_Witness ==
  \E p \in Procs :
    /\ call[p].pc = "refresh_ready" /\ call[p].out.state = "resolved"
    /\ call[p].out.value # Null
    /\ call[p].out.value.refresh_token = RT(0)
    /\ call[p].out.value.access_token = call[p].fresh
    /\ file.kind = "json" /\ JSONParse(file.text).refresh_token = RT(0)

\* C11: getValidAccessToken never returns an error to its caller; when the
\* refresh it awaited is rejected (provider error, transport error or
\* unparsable response) it sets the in-memory record to absent and returns
\* absent.
C11_NoErrorReturned ==
  \A p \in Procs :
    (call[p].op = "gvat" /\ call[p].pc = "done") => call[p].ret.kind \in {"token", "null"}

C11_RejectedStep ==
  \A p \in Procs :
    (/\ call[p].op = "gvat" /\ call[p].pc = "refresh_ready"
     /\ call[p].out.state = "rejected" /\ call'[p].pc = "done")
      => (call'[p].ret = RetNull /\ tokens' = Null)

ChecksRecord(p) ==
  /\ call[p].op = "gvat" /\ call[p].pc \in {"check", "load_ready"}
  /\ call'[p] # call[p]

\* C12: getValidAccessToken issues a token-endpoint request only when the
\* record has an access_token, is expired under the buffered rule and has a
\* refresh_token; with no record it returns absent, and with a record that is
\* not expired it returns the cached access_token, both without a request and
\* without a change to the record or the file.
C12_Step ==
  \A p \in Procs :
    ChecksRecord(p)
      => /\ (\E o \in io' \ io : o.kind = "refresh_net")
              => /\ tokens # Null
                 /\ tokens.access_token # ""
                 /\ (tokens.expires_at = 0 \/ now >= tokens.expires_at - refreshTokenBuffer)
                 /\ tokens.refresh_token # ""
         /\ tokens = Null
              => /\ call'[p].pc = "done" /\ call'[p].ret = RetNull
                 /\ io' = io /\ tokens' = tokens /\ file' = file
         /\ (/\ tokens # Null /\ tokens.access_token # "" /\ tokens.expires_at # 0
             /\ now < tokens.expires_at - refreshTokenBuffer)
              => /\ call'[p].pc = "done" /\ call'[p].ret = RetToken(tokens.access_token)
                 /\ io' = io /\ tokens' = tokens /\ file' = file

C12_RequestOnlyWhenExpired == [][C12_Step]_vars

\* With no token file, getValidAccessToken has returned absent, no request
\* is in flight and there is still no record and no file.
C12_Witness ==
  \E p \in Procs :
    /\ call[p].op = "gvat" /\ call[p].pc = "done" /\ call[p].ret = RetNull
    /\ DOMAIN call[p] = {"op", "pc", "ret"}
    /\ tokens = Null /\ file = NoFile /\ io = {} /\ issued = 0

\* C13: while the server answers GET /token-status only, no step issues a
\* refresh request, changes a record that is in memory, or changes the token
\* file.
C13_StatusReadOnly ==
  [][/\ {o \in io' : o.kind = "refresh_net"} \subseteq {o \in io : o.kind = "refresh_net"}
     /\ tokens # Null => tokens' = tokens
     /\ file' = file]_vars

\* C14: a callback without code, with error, or without state ends with 400
\* in the step that receives it, with no call of exchangeCodeForTokens and no
\* request; exchangeCodeForTokens is called only for a query with code and
\* state and without error.
C14_Step ==
  \A p \in Procs, q \in Queries :
    (call[p].pc = "idle" /\ AuthCallback(p, q))
      => /\ (~q.code \/ q.error \/ ~q.state)
              => /\ call'[p].op = "callback" /\ call'[p].pc = "done"
                 /\ call'[p].ret.status = 400
                 /\ io' = io /\ tokens' = tokens /\ file' = file
         /\ (call'[p].op = "exchange" \/ io' # io)
              => (q.code /\ q.state /\ ~q.error)

C14_No400Exchange ==
  \A p \in Procs :
    (call[p].op = "callback" /\ call[p].pc = "done" /\ call[p].ret.status = 400)
      => ~(\E o \in io : o.kind \in {"exchange_net", "exchange_write"} /\ o.p = p)

C14_CallbackGuards == [](C14_No400Exchange) /\ [][C14_Step]_vars

\* One callback has ended with 400 for its missing state, and another one,
\* complete, has its exchange request in flight.
C14_Witness ==
  \E p, r \in Procs :
    /\ call[p].op = "callback" /\ call[p].pc = "done"
    /\ call[p].ret = Http(400, "Missing State Parameter")
    /\ call[r].op = "exchange" /\ call[r].pc = "ex_net"
    /\ \A o \in io : o.kind = "exchange_net" /\ o.p = r

\* C15: with client id or client secret absent, exchangeCodeForTokens is
\* rejected in the step that calls it, with the configuration error, and no
\* request is issued and neither the record nor the file changes; no exchange
\* request or save is ever in flight.
C15_Step ==
  \A p \in Procs :
    (~configured /\ call[p].pc = "idle" /\ call'[p].op = "exchange")
      => /\ call'[p] = Done("exchange", RetError(NotConfiguredMsg))
         /\ io' = io /\ tokens' = tokens /\ file' = file

C15_NoExchangeIO ==
  ~configured => \A o \in io : o.kind \notin {"exchange_net", "exchange_write"}

C15_ExchangeFailsFast == [](C15_NoExchangeIO) /\ [][C15_Step]_vars

\* Unconfigured, exchangeCodeForTokens has been rejected with the
\* configuration error and nothing is in flight.
C15_Witness ==
  \E p \in Procs :
    /\ ~configured
    /\ call[p] = Done("exchange", RetError(NotConfiguredMsg))
    /\ io = {}

\* C16: while client id or client secret is unconfigured, no request to the
\* token endpoint is in flight, neither for an exchange nor for a refresh.
C16_ConfigErrorNeverReachesNetwork ==
  ~configured => \A o \in io : o.kind \notin {"exchange_net", "refresh_net"}

\* C17: a getTokens call whose load found a token file that cannot be parsed
\* ends with an error, not with 'no record'.
C17_LoadErrorRaised ==
  \A p \in Procs :
    (/\ call[p].op = "getTokens" /\ call[p].pc = "done" /\ "win" \in DOMAIN call[p]
     /\ file = Corrupt)
      => call[p].ret.kind = "error"

\* C18: clearTokens sets the in-memory record to absent in the step that
\* calls it and starts the deletion of the file; whatever the deletion does,
\* the call ends without an error, and the step that ends it does not change
\* the in-memory record; a deletion that fails leaves the file.
C18_Step ==
  /\ \A p \in Procs :
       (call[p].pc = "idle" /\ call'[p].op = "clear")
         => /\ tokens' = Null
            /\ [kind |-> "unlink", p |-> p] \in io' \ io
  /\ \A o \in io, unlinkOk \in BOOLEAN :
       UnlinkComplete(o, unlinkOk)
         => /\ call'[o.p] = Done("clear", [kind |-> "undefined"])
            /\ tokens' = tokens
            /\ file' = IF unlinkOk THEN NoFile ELSE file

C18_NoError ==
  \A p \in Procs : call[p].op = "clear" => ("ret" \notin DOMAIN call[p] \/ call[p].ret.kind # "error")

C18_ClearNeverThrows == [](C18_NoError) /\ [][C18_Step]_vars

\* clearTokens has ended although the deletion failed: the token file found
\* at the start is still there and the in-memory record is absent.
C18_Witness ==
  \E p \in Procs :
    /\ call[p] = Done("clear", [kind |-> "undefined"])
    /\ tokens = Null /\ file.kind = "json" /\ issued = 0

\* C19: at the step in which exchangeCodeForTokens resolves, the call
\* returns the record built from the 2xx response (its fields and expires_at
\* = time of the response + expires_in * 1000), the in-memory record is that
\* record, and the token file holds that record.
C19_FreshExchange ==
  [][\A p \in Procs :
       (/\ call[p].op = "exchange" /\ call[p].pc = "ex_save"
        /\ call'[p].pc = "done" /\ call'[p].ret.kind # "error")
         => /\ call'[p].ret = RetRecord(call[p].own)
            /\ tokens' = call[p].own
            /\ file'.kind = "json" /\ JSONParse(file'.text) = tokens']_vars

\* A step that changes the in-memory record to a record.
RecordChanges == tokens' # tokens /\ tokens' # Null

\* C20: between steps the in-memory record is never half updated: a step
\* that changes it takes access_token, expires_in and expires_at from one
\* provider response processed in that step, or replaces the whole record by
\* the record of the token file; and every save writes the record as it is
\* after such a step.
C20_Step ==
  /\ RecordChanges
       => \/ \E resp \in OkResponses(TRUE) :
               /\ tokens'.access_token = resp.access_token
               /\ tokens'.expires_in = resp.expires_in
               /\ tokens'.expires_at = now + resp.expires_in * 1000
          \/ file.kind = "json" /\ tokens' = JSONParse(file.text)
  /\ \A o \in io' \ io :
       o.kind \in {"refresh_write", "exchange_write"} => o.text = JSONStringify(tokens')
  /\ file' # file
       => \/ file' = NoFile
          \/ \E o \in io : /\ o.kind \in {"refresh_write", "exchange_write"}
                           /\ file' = [kind |-> "json", text |-> o.text]

C20_AtomicReplacement == [][C20_Step]_vars

\* While the save of a refresh is in flight, another caller has read the
\* record: it carries the access_token, expires_in and expires_at of that
\* response.
C20_Witness ==
  \E o \in io, p \in Procs :
    /\ o.kind = "refresh_write"
    /\ tokens # Null
    /\ call[p] = Done("getTokens", RetRecord(tokens))
    /\ tokens.access_token = o.resp.access_token
    /\ tokens.expires_in = o.resp.expires_in
    /\ tokens.expires_at = now + o.resp.expires_in * 1000
    /\ tokens.expires_at # o.old.expires_at

\* C21: two /auth/callback requests that differ only in the (non-empty) value
\* of state take the same step from the same state - the same HTTP answer or
\* the same exchangeCodeForTokens call, hence the same record afterwards: the
\* value is neither stored nor compared.
C21_StateValueIgnored ==
  [][\A p \in Procs, q1 \in ValueQueries, q2 \in ValueQueries :
       (q1.code = q2.code /\ q1.error = q2.error /\ q1.state # "" /\ q2.state # "")
         => (AuthCallbackWithState(p, q1) <=> AuthCallbackWithState(p, q2))]_vars

\* A callback that carried a state value has been answered with the success
\* page, the exchanged record installed and saved.
C21_Witness ==
  \E p \in Procs :
    /\ call[p] = Done("callback", Http(200, "Authentication Successful"))
    /\ tokens # Null
    /\ file = FileOf(tokens)

\* C22: refreshAccessToken called with no record in memory, or with a record
\* that has no refresh_token, is rejected in the step of the call with 'No
\* refresh token available to refresh the access token.'; the step issues no
\* request, leaves the in-flight marker as it is (it does not set it) and
\* changes neither the record nor the file.
C22_RefreshWithoutRefreshToken ==
  [][\A p \in Procs :
       (/\ call[p].pc = "idle" /\ call'[p].op = "refresh"
        /\ (tokens = Null \/ tokens.refresh_token = ""))
         => /\ call'[p] = Done("refresh", RetError(NoRefreshTokenMsg))
            /\ io' = io
            /\ refreshPromise' = refreshPromise
            /\ tokens' = tokens /\ file' = file]_vars

\* Both cases have happened at once: one direct call was rejected for the
\* absent record or absent refresh_token, and no refresh is marked or in
\* flight, with a record that has no refresh_token in memory.
C22_Witness ==
  \E p \in Procs :
    /\ call[p] = Done("refresh", RetError(NoRefreshTokenMsg))
    /\ tokens # Null /\ tokens.refresh_token = ""
    /\ refreshPromise = 0 /\ RefreshesInFlight = {}

\* C24: the outcome of a refresh is applied only to the record whose
\* refresh_token was sent in the refresh request: a response that finds
\* another record in memory - one installed and saved by an exchange that
\* completed while the refresh was in flight - modifies nothing of it.
C24_StaleRefreshSparesNewRecord ==
  [][\A o \in io, resp \in Responses(TRUE) :
       (/\ o.kind = "refresh_net"
        /\ RefreshResponse(o, resp)
        /\ tokens # Null /\ tokens.refresh_token # o.refresh_token
        /\ ~(\E w \in io : w.kind = "exchange_write")
        /\ file = FileOf(tokens))
         => tokens' = tokens]_vars

\* C25: a load of the token file that completes when a record is in memory -
\* loads start only when there is none, so the record was installed while the
\* load was in flight - leaves that record in place.
C25_LoadSparesNewRecord ==
  [][\A o \in io, readOk \in BOOLEAN :
       (o.kind = "read" /\ ReadComplete(o, readOk) /\ tokens # Null)
         => tokens' = tokens]_vars

\* C28: an exchange that resolves, resolves with the record built from its
\* own response, whatever exchanges or clearTokens calls overlap with it.
C28_ExchangeResolvesOwnRecord ==
  [][\A p \in Procs :
       (/\ call[p].op = "exchange" /\ call[p].pc = "ex_save"
        /\ call'[p].pc = "done" /\ call'[p].ret.kind # "error")
         => call'[p].ret = RetRecord(call[p].own)]_vars

\* The messages of a remote failure of the refresh request: the provider's
\* error, an unparsable body, a transport error.
C29_RemoteFailures == {ErrorResponse.error_description, SyntaxErrorMsg, TransportMsg}

\* C29: a direct refreshAccessToken or exchangeCodeForTokens call that fails
\* remotely (provider error, unparsable response, transport error) hands the
\* error to its caller, and none of its steps - the call, the failing
\* answer, the rejection reaching the caller - changes the in-memory record
\* or the token file; a refresh request that ends without a save rejects
\* every caller awaiting it.
C29_Step ==
  /\ \A p \in Procs :
       /\ (call[p].pc = "idle" /\ call'[p].op \in {"refresh", "exchange"})
            => (tokens' = tokens /\ file' = file)
       /\ (/\ call[p].op = "refresh" /\ call[p].pc = "wait_refresh"
           /\ call'[p].pc = "refresh_ready"
           /\ call'[p].out.state = "rejected"
           /\ call'[p].out.msg \in C29_RemoteFailures)
            => (tokens' = tokens /\ file' = file)
       /\ (/\ call[p].op = "refresh" /\ call[p].pc = "refresh_ready"
           /\ call[p].out.state = "rejected"
           /\ call'[p] # call[p])
            => /\ call'[p].pc = "done" /\ call'[p].ret = RetError(call[p].out.msg)
               /\ tokens' = tokens /\ file' = file
       /\ (call[p].op = "exchange" /\ call[p].pc = "ex_net" /\ call'[p].pc = "done")
            => /\ call'[p].ret \in {RetError(ErrorResponse.error_description),
                                    RetError(ExchangeParseMsg), RetError(TransportMsg)}
               /\ tokens' = tokens /\ file' = file
  /\ \A o \in io :
       (/\ o.kind = "refresh_net" /\ o \notin io'
        /\ ~(\E w \in io' : w.kind = "refresh_write" /\ w.id = o.id))
         => \A p \in Procs :
              (call[p].pc = "wait_refresh" /\ call[p].id = o.id)
                => /\ call'[p].pc = "refresh_ready"
                   /\ call'[p].out.state = "rejected"

C29_RemoteFailureLeavesState == [][C29_Step]_vars

\* A direct refresh has been rejected with the provider's error, after a
\* tick of the clock; the record loaded from the file is still in memory and
\* the file still holds it.
C29_Witness ==
  \E p \in Procs :
    /\ call[p].op = "refresh" /\ call[p].pc = "done"
    /\ call[p].ret = RetError(ErrorResponse.error_description)
    /\ tokens # Null /\ file = FileOf(tokens)
    /\ now > InitNow

\* Nothing in flight: no I/O, no call in progress, no promise pending.
C27_Quiescent ==
  /\ io = {} /\ settling = {}
  /\ loadPromise = 0 /\ refreshPromise = 0
  /\ \A p \in Procs : call[p].pc = "idle"

\* C27: when nothing is in flight and no save has failed, a record in memory
\* is the record the token file holds, after any sequence of exchange,
\* refresh and getValidAccessToken calls, overlapping ones included.
C27_MemoryMatchesDisk ==
  (C27_Quiescent /\ tokens # Null) => file = FileOf(tokens)

\* An exchange has processed its 2xx response and not yet been noted by its
\* caller.
ExchangeUnderWay ==
  \E q \in Procs : call[q].op = "exchange" /\ call[q].pc \in {"ex_save", "done"}

\* C23: a caller whose clearTokens call has completed gets no access token
\* from a getValidAccessToken call it makes afterwards, as long as no
\* exchangeCodeForTokens has succeeded since - whatever else is in flight
\* and whether or not the deletion of the file succeeded.
C23_LogoutSticky ==
  [][\A p \in Procs :
       (LoggedOut(p) \in io /\ ~ExchangeUnderWay) => ~ReturnsToken(p)]_vars

\* C26: a caller to whom getValidAccessToken has returned absent after a
\* failed refresh, or for an expired record without refresh_token, causes no
\* token-endpoint request by the getValidAccessToken calls it makes
\* afterwards, as long as no exchangeCodeForTokens has succeeded since.
C26_InvalidationFinal ==
  [][\A p \in Procs :
       (Invalidated(p) \in io /\ ~ExchangeUnderWay /\ ChecksRecord(p))
         => ~(\E o \in io' \ io : o.kind = "refresh_net")]_vars

\* C30: when every refresh request is answered or fails and every write
\* ends, a refresh that has started settles (request and save leave the
\* flight), the in-flight marker is cleared, and every caller awaiting the
\* refresh, direct or through getValidAccessToken, gets its result.
C30_RefreshLiveness ==
  /\ (RefreshesInFlight # {}) ~> (RefreshesInFlight = {})
  /\ (refreshPromise # 0) ~> (refreshPromise = 0)
  /\ \A p \in Procs : (call[p].pc = "wait_refresh") ~> (call[p].pc = "done")

\* A refresh awaited by a direct caller and a getValidAccessToken caller has
\* ended with a transport error: the marker is cleared, nothing is in
\* flight, one caller has its rejection and the other its absent token.
C30_Witness ==
  \E p, r \in Procs :
    /\ call[p].op = "refresh" /\ call[p].pc = "done"
    /\ call[p].ret = RetError(TransportMsg)
    /\ call[r].op = "gvat" /\ call[r].pc = "done" /\ "out" \in DOMAIN call[r]
    /\ call[r].win = call[p].win /\ call[r].ret = RetNull
    /\ refreshPromise = 0 /\ RefreshesInFlight = {}

====
